---- MODULE Spec2Model ----
(***************************************************************************)
(* The cooperative application run-time of src/devices/feathers2.py:       *)
(* FeatherS2.run() with its life-cycle state, the hooks it calls, the      *)
(* timer collection it owns, and the Timer class.                          *)
(*                                                                         *)
(* run() is one synchronous procedure; pc is its position.  The hooks      *)
(* init/loop/deinit and the timer callbacks are user code: what they do    *)
(* (call finish(), register or start a timer, raise) is chosen             *)
(* nondeterministically.  monotonic_ns() is the variable clock; each read  *)
(* may find that some time has passed since the previous read.             *)
(***************************************************************************)
EXTENDS Integers, Sequences, FiniteSets, TLC

VARIABLES
    pc,            \* position of the control flow in run()
    run_state,     \* FeatherS2.run_state
    finished,      \* FeatherS2.finished: "None", "False" or "True"
    exit_code,     \* FeatherS2.exit_code
    timers,        \* FeatherS2.timers: name -> Timer
    name_counter,  \* Timer.name_counter (class attribute)
    clock,         \* the value monotonic_ns() last returned
    pending,       \* timers the running update_timers() pass has still to visit
    log,           \* history: the hooks and collaborators invoked, in order
    faults,        \* history: the faults raised inside run(), in order
    first_finish,  \* history: the first finish() call made during run()
    pass_hist,     \* history: the update() calls of the current update pass
    op_hist        \* history: the last operation applied to the timer under study

vars == <<pc, run_state, finished, exit_code, timers, name_counter, clock,
          pending, log, faults, first_finish, pass_hist, op_hist>>

----------------------------------------------------------------------------
(* RunStates *)
NOT_STARTED == 1
STARTING == 2
INITIALISING == 3
LOOPING == 4
DEINITIALISING == 5
SHUTTING_DOWN == 6

(* The attributes __init__ sets to None.  exit_code and run_state hold     *)
(* integers once set, so None is an integer no ordinal and no code equals. *)
NoneInt == -1
NoneTimers == [None |-> TRUE]

(* exit_code value "all OK" *)
EXIT_OK == 0

(* period is in milliseconds, monotonic_ns() in nanoseconds *)
NsPerMs == 1000000

----------------------------------------------------------------------------
(* Bounds of the model *)
MaxIter == 2        \* iterations of the while loop that may be started
MaxTicks == 2       \* the clock stops advancing after MaxTicks quanta
MaxAuto == 1        \* timers registered without a name
MaxTimers == 1      \* timers registered at one time

Quantum == NsPerMs \div 2
Periods == {1}
TimerNames == {"Tick_Timer"}
CallbackReturns == {"return", "finish"}

(* The readings monotonic_ns() can give now: the clock never goes back. *)
Readings(from) == {from + k * Quantum : k \in 0..1} \cap (0..(MaxTicks * Quantum))

----------------------------------------------------------------------------
(* Timer *)

(* "Timer-{0}".format(Timer.name_counter) *)
AutoName(n) == "Timer-" \o ToString(n)

(* The names user code passes to the timer operations *)
Names == TimerNames \cup {AutoName(i) : i \in 0..(MaxAuto - 1)}

(* Timer.__init__, but for the name *)
TimerNew(period) ==
    [period |-> period, trigger_count |-> 0, running |-> FALSE,
     paused |-> FALSE, duration |-> 0, before |-> 0]

(* reset() that leaves the trigger count, pause() that also stops, and     *)
(* resume() that leaves the baseline                                       *)
TimerReset_KeepsCount(t, now) == [t EXCEPT !.duration = 0, !.before = now]
TimerPause_Stops(t) == [t EXCEPT !.paused = TRUE, !.running = FALSE]
TimerResume_KeepsBaseline(t, now) == [t EXCEPT !.paused = FALSE]

TimerReset(t, now) ==
    [t EXCEPT !.trigger_count = 0, !.duration = 0, !.before = now]

(* start() that leaves a timer alone that is running already *)
TimerStart_OnlyIfStopped(t, now) ==
    IF t.running THEN t
    ELSE [t EXCEPT !.trigger_count = 0, !.duration = 0, !.before = now,
                   !.running = TRUE, !.paused = FALSE]

TimerStart(t, now) ==
    [TimerReset(t, now) EXCEPT !.running = TRUE, !.paused = FALSE]

TimerStop(t, now) ==
    TimerReset([t EXCEPT !.running = FALSE, !.paused = FALSE], now)

TimerPause(t) == [t EXCEPT !.paused = TRUE]

(* resume() that adds the time since the baseline to the accumulator *)
TimerResume_CountsPause(t, now) ==
    [t EXCEPT !.paused = FALSE, !.duration = t.duration + (now - t.before),
              !.before = now]

TimerResume(t, now) == [t EXCEPT !.paused = FALSE, !.before = now]

(* update() that looks at the running flag alone *)
TimerActive_IgnoresPause(t) == t.running

(* update(): the guard, the accumulation and the firing test *)
TimerActive(t) == t.running /\ ~t.paused
TimerAccumulated(t, now) == t.duration + (now - t.before)
TimerDue(t, now) == TimerAccumulated(t, now) >= t.period * NsPerMs

(* update() when the period has not elapsed *)
TimerUpdateIdle(t, now) ==
    [t EXCEPT !.duration = TimerAccumulated(t, now), !.before = now]

(* update() that counts every whole period that has accumulated *)
TimerUpdateFired_CatchesUp(t, now, after) ==
    [t EXCEPT !.duration = after - now,
              !.trigger_count = t.trigger_count
                  + (TimerAccumulated(t, now) \div (t.period * NsPerMs)),
              !.before = after]

(* update() when the callback was invoked at now and returned at after *)
TimerUpdateFired(t, now, after) ==
    [t EXCEPT !.duration = after - now,
              !.trigger_count = t.trigger_count + 1,
              !.before = after]

(* update() when the callback raised: only the accumulation was stored *)
TimerUpdateRaised(t, now) == [t EXCEPT !.duration = TimerAccumulated(t, now)]

----------------------------------------------------------------------------
(* History *)
NoFinish == [src |-> "none", iter |-> 0]
Entry(call, rs, forced) == [call |-> call, state |-> rs, forced |-> forced]
Count(call) == Cardinality({i \in DOMAIN log : log[i].call = call})
Raise(src) == faults' = Append(faults, [src |-> src, state |-> run_state])

(* History of an update pass: the timers registered when it began, how    *)
(* often update() was called on each, the timers whose callback it         *)
(* invoked, and the timers that were still to be visited when a callback   *)
(* of this pass first called finish()                                      *)
NoPass == [names |-> {}, visits |-> [n \in {} |-> 0], fired |-> {}, rest |-> {}]
BeginPass(names) ==
    [names |-> names, visits |-> [n \in names |-> 0], fired |-> {}, rest |-> {}]
Visited(h, n) ==
    [h EXCEPT !.visits = [x \in DOMAIN h.visits \cup {n} |->
                            IF x = n
                            THEN (IF n \in DOMAIN h.visits THEN h.visits[n] ELSE 0) + 1
                            ELSE h.visits[x]]]
Fired(h, n) == [Visited(h, n) EXCEPT !.fired = h.fired \cup {n}]
NoOp == [op |-> "none"]

(* Python truth value of the finished attribute *)
Truthy(f) == f = "True"

(* dict: d[k] = v *)
DictSet(d, k, v) == [x \in DOMAIN d \cup {k} |-> IF x = k THEN v ELSE d[x]]
EmptyDict == [x \in {} |-> TimerNew(1)]

----------------------------------------------------------------------------
Init ==
    /\ pc = "idle"
    /\ run_state = NoneInt
    /\ finished = "None"
    /\ exit_code = NoneInt
    /\ timers = NoneTimers
    /\ name_counter = 0
    /\ clock = 0
    /\ pending = {}
    /\ log = <<>>
    /\ faults = <<>>
    /\ first_finish = NoFinish
    /\ pass_hist = NoPass
    /\ op_hist = NoOp

(* The places where user code runs and may call the run-time's methods *)
InHook == pc \in {"init", "loop", "deinit", "forced_deinit"}

(* finish() with the flag mistyped *)
Finish_SetsFalse ==
    /\ InHook \/ pc = "idle"
    /\ finished' = "False"
    /\ first_finish' = IF pc # "idle" /\ first_finish = NoFinish
                       THEN [src |-> pc, iter |-> Count("loop")]
                       ELSE first_finish
    /\ UNCHANGED <<pc, run_state, exit_code, timers, name_counter, clock,
                   pending, log, faults,
                   pass_hist, op_hist>>

(* finish() *)
Finish ==
    /\ InHook \/ pc = "idle"
    /\ finished' = "True"
    /\ first_finish' = IF pc # "idle" /\ first_finish = NoFinish
                       THEN [src |-> pc, iter |-> Count("loop")]
                       ELSE first_finish
    /\ UNCHANGED <<pc, run_state, exit_code, timers, name_counter, clock,
                   pending, log, faults,
                   pass_hist, op_hist>>

(* add_timer registering under a name whether or not it is taken *)
AddTimerAccepts_Always(name, d) == TRUE

(* add_timer: if not name or not name in self.timers *)
AddTimerAccepts(name, d) == name = "" \/ name \notin DOMAIN d

(* Timer.__init__: the name of the new timer and the class counter after it *)
TimerName(name, counter) == IF name = "" THEN AutoName(counter) ELSE name
TimerCounter(name, counter) == IF name = "" THEN counter + 1 ELSE counter

(* add_timer(period, callback, name); name "" is the omitted name *)
AddTimer(period, name) ==
    /\ InHook
    /\ timers # NoneTimers
    /\ IF AddTimerAccepts(name, timers)
       THEN /\ name = "" => name_counter < MaxAuto
            /\ Cardinality(DOMAIN timers) < MaxTimers
            /\ timers' = DictSet(timers, TimerName(name, name_counter),
                                 TimerNew(period))
            /\ name_counter' = TimerCounter(name, name_counter)
       ELSE UNCHANGED <<timers, name_counter>>
    /\ UNCHANGED <<pc, run_state, finished, exit_code, clock, pending, log,
                   faults, first_finish,
                   pass_hist, op_hist>>

(* start_timer(name) *)
StartTimer(name) ==
    /\ InHook
    /\ timers # NoneTimers
    /\ \E now \in Readings(clock) :
         /\ clock' = now
         /\ timers' = IF name \in DOMAIN timers
                      THEN [timers EXCEPT ![name] = TimerStart(@, now)]
                      ELSE timers
    /\ UNCHANGED <<pc, run_state, finished, exit_code, name_counter, pending,
                   log, faults, first_finish,
                   pass_hist, op_hist>>

(* stop_timer(name) *)
StopTimer(name) ==
    /\ InHook
    /\ timers # NoneTimers
    /\ \E now \in Readings(clock) :
         /\ clock' = now
         /\ timers' = IF name \in DOMAIN timers
                      THEN [timers EXCEPT ![name] = TimerStop(@, now)]
                      ELSE timers
    /\ UNCHANGED <<pc, run_state, finished, exit_code, name_counter, pending,
                   log, faults, first_finish,
                   pass_hist, op_hist>>

(* pause_timer(name) *)
PauseTimer(name) ==
    /\ InHook
    /\ timers # NoneTimers
    /\ timers' = IF name \in DOMAIN timers
                 THEN [timers EXCEPT ![name] = TimerPause(@)]
                 ELSE timers
    /\ UNCHANGED <<pc, run_state, finished, exit_code, name_counter, clock,
                   pending, log, faults, first_finish,
                   pass_hist, op_hist>>

(* resume_timer(name) *)
ResumeTimer(name) ==
    /\ InHook
    /\ timers # NoneTimers
    /\ \E now \in Readings(clock) :
         /\ clock' = now
         /\ timers' = IF name \in DOMAIN timers
                      THEN [timers EXCEPT ![name] = TimerResume(@, now)]
                      ELSE timers
    /\ UNCHANGED <<pc, run_state, finished, exit_code, name_counter, pending,
                   log, faults, first_finish,
                   pass_hist, op_hist>>

(* remove_timer(name) *)
RemoveTimer(name) ==
    /\ InHook
    /\ timers # NoneTimers
    /\ timers' = [x \in DOMAIN timers \ {name} |-> timers[x]]
    /\ UNCHANGED <<pc, run_state, finished, exit_code, name_counter, clock,
                   pending, log, faults, first_finish,
                   pass_hist, op_hist>>

----------------------------------------------------------------------------
(* run() *)

(* run_state = STARTING; startup() is entered *)
Run ==
    /\ pc = "idle"
    /\ run_state' = STARTING
    /\ pc' = "startup"
    /\ log' = Append(log, Entry("startup", run_state', FALSE))
    /\ UNCHANGED <<finished, exit_code, timers, name_counter, clock, pending,
                   faults, first_finish,
                   pass_hist, op_hist>>

(* startup(): loading the configuration or opening a bus raises *)
Startup_Raise ==
    /\ pc = "startup"
    /\ pc' = "except"
    /\ Raise("startup")
    /\ UNCHANGED <<run_state, finished, exit_code, timers, name_counter, clock,
                   pending, log, first_finish,
                   pass_hist, op_hist>>

(* startup() that leaves the finished flag as it finds it *)
Startup_Reset_KeepsFinished ==
    /\ pc = "startup"
    /\ finished' = IF finished = "None" THEN "False" ELSE finished
    /\ exit_code' = EXIT_OK
    /\ run_state' = NOT_STARTED
    /\ timers' = EmptyDict
    /\ pc' = "started"
    /\ UNCHANGED <<name_counter, clock, pending, log, faults, first_finish,
                   pass_hist, op_hist>>

(* startup(): the attributes of the run-time are given their first values *)
Startup_Reset ==
    /\ pc = "startup"
    /\ finished' = "False"
    /\ exit_code' = EXIT_OK
    /\ run_state' = NOT_STARTED
    /\ timers' = EmptyDict
    /\ pc' = "started"
    /\ UNCHANGED <<name_counter, clock, pending, log, faults, first_finish,
                   pass_hist, op_hist>>

(* run_state = INITIALISING; init() is entered *)
Run_Init ==
    /\ pc = "started"
    /\ run_state' = INITIALISING
    /\ pc' = "init"
    /\ log' = Append(log, Entry("init", run_state', FALSE))
    /\ UNCHANGED <<finished, exit_code, timers, name_counter, clock, pending,
                   faults, first_finish,
                   pass_hist, op_hist>>

(* init() returns; run_state = LOOPING *)
Init_Return ==
    /\ pc = "init"
    /\ run_state' = LOOPING
    /\ pc' = "while"
    /\ UNCHANGED <<finished, exit_code, timers, name_counter, clock, pending,
                   log, faults, first_finish,
                   pass_hist, op_hist>>

(* a hook (init, loop, deinit in its normal place) raises *)
Hook_Raise ==
    /\ pc \in {"init", "loop", "deinit"}
    /\ pc' = "except"
    /\ Raise(pc)
    /\ UNCHANGED <<run_state, finished, exit_code, timers, name_counter, clock,
                   pending, log, first_finish,
                   pass_hist, op_hist>>

(* the loop condition inverted, and the loop condition dropped *)
LoopContinues_Inverted(f) == f = "True"
LoopContinues_Always(f) == TRUE

(* while not self.finished *)
LoopContinues(f) == ~Truthy(f)

(* an update pass that skips the timers that are stopped or paused *)
While_Enter_ActiveOnly ==
    /\ pc = "while"
    /\ LoopContinues(finished)
    /\ Count("update_timers") < MaxIter
    /\ pc' = "update_timers"
    /\ pending' = {n \in DOMAIN timers : TimerActive(timers[n])}
    /\ pass_hist' = BeginPass(DOMAIN timers)
    /\ log' = Append(log, Entry("update_timers", run_state, FALSE))
    /\ UNCHANGED <<run_state, finished, exit_code, timers, name_counter, clock,
                   faults, first_finish, op_hist>>

(* the loop condition holds: update_timers() is entered *)
While_Enter ==
    /\ pc = "while"
    /\ LoopContinues(finished)
    /\ Count("update_timers") < MaxIter
    /\ pc' = "update_timers"
    /\ pending' = DOMAIN timers
    /\ pass_hist' = BeginPass(DOMAIN timers)
    /\ log' = Append(log, Entry("update_timers", run_state, FALSE))
    /\ UNCHANGED <<run_state, finished, exit_code, timers, name_counter, clock,
                   faults, first_finish, op_hist>>

(* leaving the loop without recording the new state *)
While_Exit_KeepsState ==
    /\ pc = "while"
    /\ finished = "True"
    /\ pc' = "deinit"
    /\ log' = Append(log, Entry("deinit", run_state, FALSE))
    /\ UNCHANGED <<run_state, finished, exit_code, timers, name_counter, clock,
                   pending, faults, first_finish,
                   pass_hist, op_hist>>

(* the loop condition fails: run_state = DEINITIALISING; deinit() is entered *)
While_Exit ==
    /\ pc = "while"
    /\ ~LoopContinues(finished)
    /\ run_state' = DEINITIALISING
    /\ pc' = "deinit"
    /\ log' = Append(log, Entry("deinit", run_state', FALSE))
    /\ UNCHANGED <<finished, exit_code, timers, name_counter, clock, pending,
                   faults, first_finish,
                   pass_hist, op_hist>>

(* update_timers(): update() of a timer that is stopped or paused *)
Update_Inactive(n) ==
    /\ pc = "update_timers"
    /\ n \in pending
    /\ ~TimerActive(timers[n])
    /\ pending' = pending \ {n}
    /\ pass_hist' = Visited(pass_hist, n)
    /\ UNCHANGED <<pc, run_state, finished, exit_code, timers, name_counter,
                   clock, log, faults, first_finish, op_hist>>

(* update_timers(): update() of a timer whose period has not elapsed *)
Update_Idle(n) ==
    /\ pc = "update_timers"
    /\ n \in pending
    /\ TimerActive(timers[n])
    /\ \E now \in Readings(clock) :
         /\ ~TimerDue(timers[n], now)
         /\ timers' = [timers EXCEPT ![n] = TimerUpdateIdle(@, now)]
         /\ clock' = now
    /\ pending' = pending \ {n}
    /\ pass_hist' = Visited(pass_hist, n)
    /\ UNCHANGED <<pc, run_state, finished, exit_code, name_counter, log,
                   faults, first_finish, op_hist>>

(* update_timers(): update() of a timer that fires; the callback returns,  *)
(* having called finish() or not                                           *)
Update_Fire(n, outcome) ==
    /\ pc = "update_timers"
    /\ n \in pending
    /\ TimerActive(timers[n])
    /\ \E now \in Readings(clock) :
         /\ TimerDue(timers[n], now)
         /\ \E after \in Readings(now) :
              /\ timers' = [timers EXCEPT ![n] = TimerUpdateFired(@, now, after)]
              /\ clock' = after
    /\ finished' = IF outcome = "finish" THEN "True" ELSE finished
    /\ first_finish' = IF outcome = "finish" /\ first_finish = NoFinish
                       THEN [src |-> "timer", iter |-> Count("update_timers")]
                       ELSE first_finish
    /\ pending' = pending \ {n}
    /\ pass_hist' = IF outcome = "finish" /\ ~Truthy(finished)
                    THEN [Fired(pass_hist, n) EXCEPT !.rest = pending \ {n}]
                    ELSE Fired(pass_hist, n)
    /\ UNCHANGED <<pc, run_state, exit_code, name_counter, log, faults,
                   op_hist>>

(* update_timers() going on to the next timer after a callback raised *)
Update_Raise_Swallowed(n) ==
    /\ pc = "update_timers"
    /\ n \in pending
    /\ TimerActive(timers[n])
    /\ \E now \in Readings(clock) :
         /\ TimerDue(timers[n], now)
         /\ timers' = [timers EXCEPT ![n] = TimerUpdateRaised(@, now)]
         /\ clock' = now
    /\ pending' = pending \ {n}
    /\ Raise("timer")
    /\ pass_hist' = Fired(pass_hist, n)
    /\ UNCHANGED <<pc, run_state, finished, exit_code, name_counter, log,
                   first_finish, op_hist>>

(* update_timers(): update() of a timer that fires; the callback raises *)
Update_Raise(n) ==
    /\ pc = "update_timers"
    /\ n \in pending
    /\ TimerActive(timers[n])
    /\ \E now \in Readings(clock) :
         /\ TimerDue(timers[n], now)
         /\ timers' = [timers EXCEPT ![n] = TimerUpdateRaised(@, now)]
         /\ clock' = now
    /\ pc' = "except"
    /\ Raise("timer")
    /\ pass_hist' = Fired(pass_hist, n)
    /\ UNCHANGED <<run_state, finished, exit_code, name_counter, pending, log,
                   first_finish, op_hist>>

(* update_timers() left as soon as a callback has called finish() *)
Update_Return_OnFinish ==
    /\ pc = "update_timers"
    /\ pending = {} \/ Truthy(finished)
    /\ pc' = "loop"
    /\ pending' = {}
    /\ pass_hist' = NoPass
    /\ log' = Append(log, Entry("loop", run_state, FALSE))
    /\ UNCHANGED <<run_state, finished, exit_code, timers, name_counter, clock,
                   faults, first_finish, op_hist>>

(* update_timers() returns, the history of its pass ends; loop() is entered *)
Update_Return ==
    /\ pc = "update_timers"
    /\ pending = {}
    /\ pc' = "loop"
    /\ pass_hist' = NoPass
    /\ log' = Append(log, Entry("loop", run_state, FALSE))
    /\ UNCHANGED <<run_state, finished, exit_code, timers, name_counter, clock,
                   pending, faults, first_finish, op_hist>>

(* loop() returns *)
Loop_Return ==
    /\ pc = "loop"
    /\ pc' = "while"
    /\ UNCHANGED <<run_state, finished, exit_code, timers, name_counter, clock,
                   pending, log, faults, first_finish,
                   pass_hist, op_hist>>

(* deinit() returns; run_state = SHUTTING_DOWN; shutdown() is entered *)
Deinit_Return ==
    /\ pc = "deinit"
    /\ run_state' = SHUTTING_DOWN
    /\ pc' = "shutdown"
    /\ log' = Append(log, Entry("shutdown", run_state', FALSE))
    /\ UNCHANGED <<finished, exit_code, timers, name_counter, clock, pending,
                   faults, first_finish,
                   pass_hist, op_hist>>

(* shutdown() returns and run() with it *)
Shutdown_Return ==
    /\ pc = "shutdown"
    /\ pc' = "returned"
    /\ UNCHANGED <<run_state, finished, exit_code, timers, name_counter, clock,
                   pending, log, faults, first_finish,
                   pass_hist, op_hist>>

(* shutdown() raises *)
Shutdown_Raise ==
    /\ pc = "shutdown"
    /\ pc' = "except"
    /\ Raise("shutdown")
    /\ UNCHANGED <<run_state, finished, exit_code, timers, name_counter, clock,
                   pending, log, first_finish,
                   pass_hist, op_hist>>

(* one generic error code for every fault *)
ExitCodeOf_Generic(rs) == 1

(* the comparison with SHUTTING_DOWN reversed, and cleanup only for faults *)
(* raised before deinit() was reached                                      *)
ForcesDeinit_Reversed(rs) == rs > SHUTTING_DOWN
ForcesDeinit_BeforeDeinit(rs) == rs < DEINITIALISING

(* except Exception: the exit code given to a fault caught in state rs *)
ExitCodeOf(rs) == rs

(* except Exception: whether deinit() is forced after a fault in state rs *)
ForcesDeinit(rs) == rs < SHUTTING_DOWN

(* except Exception as ex *)
Except ==
    /\ pc = "except"
    /\ exit_code' = ExitCodeOf(run_state)
    /\ IF ForcesDeinit(run_state)
       THEN /\ pc' = "forced_deinit"
            /\ log' = Append(log, Entry("deinit", run_state, TRUE))
       ELSE /\ pc' = "returned"
            /\ UNCHANGED log
    /\ UNCHANGED <<run_state, finished, timers, name_counter, clock, pending,
                   faults, first_finish,
                   pass_hist, op_hist>>

(* run() going on to shutdown() after the forced deinit() *)
Forced_Return_ThenShutdown ==
    /\ pc = "forced_deinit"
    /\ run_state' = SHUTTING_DOWN
    /\ pc' = "shutdown"
    /\ log' = Append(log, Entry("shutdown", run_state', FALSE))
    /\ UNCHANGED <<finished, exit_code, timers, name_counter, clock, pending,
                   faults, first_finish, pass_hist, op_hist>>

(* the forced deinit() returns and run() with it *)
Forced_Return ==
    /\ pc = "forced_deinit"
    /\ pc' = "returned"
    /\ UNCHANGED <<run_state, finished, exit_code, timers, name_counter, clock,
                   pending, log, faults, first_finish,
                   pass_hist, op_hist>>

(* a fault of the forced deinit() handled by the same except clause again *)
Forced_Raise_Caught ==
    /\ pc = "forced_deinit"
    /\ pc' = "except"
    /\ Raise("forced_deinit")
    /\ UNCHANGED <<run_state, finished, exit_code, timers, name_counter, clock,
                   pending, log, first_finish,
                   pass_hist, op_hist>>

(* the forced deinit() raises inside the except clause: run() raises *)
Forced_Raise ==
    /\ pc = "forced_deinit"
    /\ pc' = "raised"
    /\ Raise("forced_deinit")
    /\ UNCHANGED <<run_state, finished, exit_code, timers, name_counter, clock,
                   pending, log, first_finish,
                   pass_hist, op_hist>>

Next ==
    \/ Finish
    \/ \E p \in Periods, name \in TimerNames \cup {""} : AddTimer(p, name)
    \/ \E name \in Names : StartTimer(name)
    \/ \E name \in Names : StopTimer(name)
    \/ \E name \in Names : PauseTimer(name)
    \/ \E name \in Names : ResumeTimer(name)
    \/ \E name \in Names : RemoveTimer(name)
    \/ Run
    \/ Startup_Raise
    \/ Startup_Reset
    \/ Run_Init
    \/ Init_Return
    \/ Hook_Raise
    \/ While_Enter
    \/ While_Exit
    \/ \E n \in pending : Update_Inactive(n)
    \/ \E n \in pending : Update_Idle(n)
    \/ \E n \in pending, outcome \in CallbackReturns : Update_Fire(n, outcome)
    \/ \E n \in pending : Update_Raise(n)
    \/ Update_Return
    \/ Loop_Return
    \/ Deinit_Return
    \/ Shutdown_Return
    \/ Shutdown_Raise
    \/ Except
    \/ Forced_Return
    \/ Forced_Raise

Spec == Init /\ [][Next]_vars

(* What run() promises its steps: every call it makes returns unless it    *)
(* raises, and run() then goes on to its next statement.                   *)
Progress ==
    \/ Startup_Reset
    \/ Run_Init
    \/ Init_Return
    \/ While_Enter
    \/ While_Exit
    \/ \E n \in pending : Update_Inactive(n)
    \/ \E n \in pending : Update_Idle(n)
    \/ \E n \in pending, outcome \in CallbackReturns : Update_Fire(n, outcome)
    \/ Update_Return
    \/ Loop_Return
    \/ Deinit_Return
    \/ Shutdown_Return
    \/ Except
    \/ Forced_Return

LiveSpec == Spec /\ WF_vars(Progress)

----------------------------------------------------------------------------
(* run() from the moment init() has registered two timers, one under a    *)
(* name of its own and one under a generated name, and has started some   *)
(* of them; the hooks make no further calls but finish().                 *)
LoopTimers == TimerNames \cup {AutoName(0)}

LoopInit ==
    /\ pc = "init"
    /\ run_state = INITIALISING
    /\ finished = "False"
    /\ exit_code = EXIT_OK
    /\ \E started \in SUBSET LoopTimers, p \in Periods :
         timers = [n \in LoopTimers |->
                     IF n \in started THEN TimerStart(TimerNew(p), 0)
                                      ELSE TimerNew(p)]
    /\ name_counter = 1
    /\ clock = 0
    /\ pending = {}
    /\ log = <<Entry("startup", STARTING, FALSE), Entry("init", INITIALISING, FALSE)>>
    /\ faults = <<>>
    /\ first_finish = NoFinish
    /\ pass_hist = NoPass
    /\ op_hist = NoOp

LoopNext ==
    \/ Finish
    \/ Init_Return
    \/ Hook_Raise
    \/ While_Enter
    \/ While_Exit
    \/ \E n \in pending : Update_Inactive(n)
    \/ \E n \in pending : Update_Idle(n)
    \/ \E n \in pending, outcome \in CallbackReturns : Update_Fire(n, outcome)
    \/ \E n \in pending : Update_Raise(n)
    \/ Update_Return
    \/ Loop_Return
    \/ Deinit_Return
    \/ Shutdown_Return
    \/ Shutdown_Raise
    \/ Except
    \/ Forced_Return
    \/ Forced_Raise

LoopSpec == LoopInit /\ [][LoopNext]_vars

----------------------------------------------------------------------------
(* run() from the moment init() has registered three timers, so that an    *)
(* update pass has a first, a middle and a last timer                      *)
PassTimers == LoopTimers \cup {AutoName(1)}

PassInit ==
    /\ pc = "init"
    /\ run_state = INITIALISING
    /\ finished = "False"
    /\ exit_code = EXIT_OK
    /\ \E started \in SUBSET PassTimers, p \in Periods :
         timers = [n \in PassTimers |->
                     IF n \in started THEN TimerStart(TimerNew(p), 0)
                                      ELSE TimerNew(p)]
    /\ name_counter = 2
    /\ clock = 0
    /\ pending = {}
    /\ log = <<Entry("startup", STARTING, FALSE), Entry("init", INITIALISING, FALSE)>>
    /\ faults = <<>>
    /\ first_finish = NoFinish
    /\ pass_hist = NoPass
    /\ op_hist = NoOp

PassSpec == PassInit /\ [][LoopNext]_vars

----------------------------------------------------------------------------
(* The timer collection: init() registers, removes, starts and pauses     *)
(* timers, under names of its own, under names of the generated form and  *)
(* under no name. The history keeps the last registry call, what it       *)
(* returned, whether it stored the timer under a key that was taken, and  *)
(* how many registrations succeeded and how many removals removed.        *)
MaxCalls == 4       \* calls of add_timer and remove_timer
RegPeriods == {1, 2}

RegCall(op, name, key, result, overwrote) ==
    [op |-> op, name |-> name, key |-> key, result |-> result,
     overwrote |-> overwrote,
     adds |-> op_hist.adds + (IF op = "add_timer" /\ result = "timer" THEN 1 ELSE 0),
     removes |-> op_hist.removes + (IF op = "remove_timer" /\ result = "removed" THEN 1 ELSE 0),
     calls |-> op_hist.calls + 1]

RegInit ==
    /\ pc = "init"
    /\ run_state = INITIALISING
    /\ finished = "False"
    /\ exit_code = EXIT_OK
    /\ timers = EmptyDict
    /\ name_counter = 0
    /\ clock = 0
    /\ pending = {}
    /\ log = <<Entry("startup", STARTING, FALSE), Entry("init", INITIALISING, FALSE)>>
    /\ faults = <<>>
    /\ first_finish = NoFinish
    /\ pass_hist = NoPass
    /\ op_hist = [op |-> "none", name |-> "", key |-> "", result |-> "None",
                  overwrote |-> FALSE, adds |-> 0, removes |-> 0, calls |-> 0]

(* add_timer(period, callback, name) *)
Reg_AddTimer(period, name) ==
    /\ InHook
    /\ op_hist.calls < MaxCalls
    /\ IF AddTimerAccepts(name, timers)
       THEN /\ timers' = DictSet(timers, TimerName(name, name_counter),
                                 TimerNew(period))
            /\ name_counter' = TimerCounter(name, name_counter)
            /\ op_hist' = RegCall("add_timer", name,
                                  TimerName(name, name_counter), "timer",
                                  TimerName(name, name_counter) \in DOMAIN timers)
       ELSE /\ UNCHANGED <<timers, name_counter>>
            /\ op_hist' = RegCall("add_timer", name, "", "None", FALSE)
    /\ UNCHANGED <<pc, run_state, finished, exit_code, clock, pending, log,
                   faults, first_finish, pass_hist>>

(* remove_timer(name) *)
Reg_RemoveTimer(name) ==
    /\ InHook
    /\ op_hist.calls < MaxCalls
    /\ timers' = [x \in DOMAIN timers \ {name} |-> timers[x]]
    /\ op_hist' = RegCall("remove_timer", name, name,
                          IF name \in DOMAIN timers THEN "removed" ELSE "None",
                          FALSE)
    /\ UNCHANGED <<pc, run_state, finished, exit_code, name_counter, clock,
                   pending, log, faults, first_finish, pass_hist>>

RegNext ==
    \/ \E p \in RegPeriods, name \in LoopTimers \cup {""} : Reg_AddTimer(p, name)
    \/ \E name \in LoopTimers : Reg_RemoveTimer(name)
    \/ \E name \in LoopTimers : StartTimer(name)
    \/ \E name \in LoopTimers : PauseTimer(name)

RegSpec == RegInit /\ [][RegNext]_vars

----------------------------------------------------------------------------
(* The operations on timers by name: init() has registered two timers and *)
(* calls the operations on one name, on a list of names and on all timers, *)
(* with names that are registered and names that are not any more. The    *)
(* history keeps the last call: its kind, the operation, and whether a     *)
(* name it was given was not registered.                                   *)
MaxList == 2        \* names in the list given to an operation on many timers
MaxOpsTicks == 1    \* the clock stops advancing after MaxOpsTicks quanta

TimerOps == {"start", "stop", "pause", "resume"}
NoTimer == [None |-> TRUE]
NameLists == UNION {[1..k -> LoopTimers] : k \in 0..MaxList}
OpsReadings(from) ==
    {from + k * Quantum : k \in 0..1} \cap (0..(MaxOpsTicks * Quantum))
(* the readings the calls made for a list take: the clock may advance     *)
(* after the j-th call                                                     *)
ListReadings(names, from) ==
    {[i \in 1..Len(names) |-> IF i <= j THEN from ELSE later] :
        j \in 0..Len(names), later \in OpsReadings(from)}
(* the readings the calls made for all timers take *)
AllReadings(d, from) ==
    {[n \in DOMAIN d |-> IF n \in early THEN from ELSE later] :
        early \in SUBSET DOMAIN d, later \in OpsReadings(from)}
Latest(nows, from) ==
    IF \E i \in DOMAIN nows : nows[i] > from
    THEN CHOOSE r \in {nows[i] : i \in DOMAIN nows} : r > from
    ELSE from

(* has_timer(name), get_timer(name) *)
HasTimer(d, name) == name \in DOMAIN d
GetTimer(d, name) == IF HasTimer(d, name) THEN d[name] ELSE NoTimer

(* timer.start(), timer.stop(), timer.pause(), timer.resume() *)
TimerOp(op, t, now) ==
    CASE op = "start" -> TimerStart(t, now)
      [] op = "stop" -> TimerStop(t, now)
      [] op = "pause" -> TimerPause(t)
      [] op = "resume" -> TimerResume(t, now)

(* an operation on one name that registers the name if it is unknown *)
SingleOp_RegistersOnDemand(d, op, name, now) ==
    IF op = "remove"
    THEN [x \in DOMAIN d \ {name} |-> d[x]]
    ELSE DictSet(d, name,
                 TimerOp(op, IF HasTimer(d, name) THEN d[name] ELSE TimerNew(1), now))

(* remove_timer that stops the timer and leaves it registered *)
SingleOp_RemoveOnlyStops(d, op, name, now) ==
    IF HasTimer(d, name)
    THEN [d EXCEPT ![name] = IF op = "remove" THEN TimerStop(d[name], now)
                             ELSE TimerOp(op, d[name], now)]
    ELSE d

(* start_timer, stop_timer, pause_timer, resume_timer, remove_timer *)
SingleOp(d, op, name, now) ==
    IF op = "remove"
    THEN IF name \in DOMAIN d THEN [x \in DOMAIN d \ {name} |-> d[x]] ELSE d
    ELSE IF HasTimer(d, name)
         THEN [d EXCEPT ![name] = TimerOp(op, GetTimer(d, name), now)]
         ELSE d

(* an operation on a list that gives up at the first unknown name *)
RECURSIVE ManyOp_StopsAtUnknown(_, _, _, _)
ManyOp_StopsAtUnknown(d, op, names, nows) ==
    IF names = <<>> \/ ~HasTimer(d, Head(names)) THEN d
    ELSE ManyOp_StopsAtUnknown(SingleOp(d, op, Head(names), Head(nows)), op,
                               Tail(names), Tail(nows))

(* start_timers, stop_timers, pause_timers, resume_timers, remove_timers: *)
(* for name in names: self.<op>_timer(name)                               *)
RECURSIVE ManyOp(_, _, _, _)
ManyOp(d, op, names, nows) ==
    IF names = <<>> THEN d
    ELSE ManyOp(SingleOp(d, op, Head(names), Head(nows)), op,
                Tail(names), Tail(nows))

(* start_all_timers, stop_all_timers, pause_all_timers, resume_all_timers: *)
(* for timer in self.timers.values(): timer.<op>(); remove_all_timers:     *)
(* self.timers.clear()                                                     *)
AllOp(d, op, nows) ==
    IF op = "remove" THEN EmptyDict
    ELSE [n \in DOMAIN d |-> TimerOp(op, d[n], nows[n])]

OpsCall(kind, op, names) ==
    [kind |-> kind, op |-> op,
     unknown |-> \E i \in DOMAIN names : ~HasTimer(timers, names[i])]

OpsInit ==
    /\ pc = "init"
    /\ run_state = INITIALISING
    /\ finished = "False"
    /\ exit_code = EXIT_OK
    /\ \E p \in Periods : timers = [n \in LoopTimers |-> TimerNew(p)]
    /\ name_counter = 1
    /\ clock = 0
    /\ pending = {}
    /\ log = <<Entry("startup", STARTING, FALSE), Entry("init", INITIALISING, FALSE)>>
    /\ faults = <<>>
    /\ first_finish = NoFinish
    /\ pass_hist = NoPass
    /\ op_hist = [kind |-> "none", op |-> "none", unknown |-> FALSE]

(* an operation on one name *)
Ops_One(op, name) ==
    /\ InHook
    /\ \E now \in OpsReadings(clock) :
         /\ timers' = SingleOp(timers, op, name, now)
         /\ clock' = now
         /\ op_hist' = OpsCall("one", op, <<name>>)
    /\ UNCHANGED <<pc, run_state, finished, exit_code, name_counter, pending,
                   log, faults, first_finish, pass_hist>>

(* an operation on a list of names; the clock may advance between two of  *)
(* the calls it makes                                                      *)
Ops_Many(op, names) ==
    /\ InHook
    /\ \E nows \in ListReadings(names, clock) :
         /\ timers' = ManyOp(timers, op, names, nows)
         /\ clock' = Latest(nows, clock)
         /\ op_hist' = OpsCall("many", op, names)
    /\ UNCHANGED <<pc, run_state, finished, exit_code, name_counter, pending,
                   log, faults, first_finish, pass_hist>>

(* an operation on all timers; the clock may advance between two of the   *)
(* calls it makes                                                          *)
Ops_All(op) ==
    /\ InHook
    /\ \E nows \in AllReadings(timers, clock) :
         /\ timers' = AllOp(timers, op, nows)
         /\ clock' = Latest(nows, clock)
         /\ op_hist' = OpsCall("all", op, <<>>)
    /\ UNCHANGED <<pc, run_state, finished, exit_code, name_counter, pending,
                   log, faults, first_finish, pass_hist>>

OpsNext ==
    \/ \E op \in TimerOps \cup {"remove"}, name \in LoopTimers : Ops_One(op, name)
    \/ \E op \in TimerOps \cup {"remove"}, names \in NameLists : Ops_Many(op, names)
    \/ \E op \in TimerOps \cup {"remove"} : Ops_All(op)

OpsSpec == OpsInit /\ [][OpsNext]_vars

----------------------------------------------------------------------------
(* run() from the moment init() has registered two timers, with hooks     *)
(* that remove timers and register timers under the names removed. The    *)
(* history keeps the timers that were removed and not registered again,   *)
(* as they were when they were removed.                                    *)
HookInit ==
    /\ pc = "init"
    /\ run_state = INITIALISING
    /\ finished = "False"
    /\ exit_code = EXIT_OK
    /\ \E started \in SUBSET LoopTimers, p \in Periods :
         timers = [n \in LoopTimers |->
                     IF n \in started THEN TimerStart(TimerNew(p), 0)
                                      ELSE TimerNew(p)]
    /\ name_counter = 1
    /\ clock = 0
    /\ pending = {}
    /\ log = <<Entry("startup", STARTING, FALSE), Entry("init", INITIALISING, FALSE)>>
    /\ faults = <<>>
    /\ first_finish = NoFinish
    /\ pass_hist = NoPass
    /\ op_hist = [gone |-> EmptyDict]

(* remove_timer(name) called by a hook *)
Hook_RemoveTimer(name) ==
    /\ InHook
    /\ timers' = SingleOp(timers, "remove", name, clock)
    /\ op_hist' = [gone |-> IF HasTimer(timers, name)
                            THEN DictSet(op_hist.gone, name, timers[name])
                            ELSE op_hist.gone]
    /\ UNCHANGED <<pc, run_state, finished, exit_code, name_counter, clock,
                   pending, log, faults, first_finish, pass_hist>>

(* add_timer(period, callback, name) called by a hook with a name given *)
Hook_AddTimer(period, name) ==
    /\ InHook
    /\ IF AddTimerAccepts(name, timers)
       THEN /\ timers' = DictSet(timers, TimerName(name, name_counter),
                                 TimerNew(period))
            /\ name_counter' = TimerCounter(name, name_counter)
            /\ op_hist' = [gone |-> [x \in DOMAIN op_hist.gone \ {name} |->
                                       op_hist.gone[x]]]
       ELSE UNCHANGED <<timers, name_counter, op_hist>>
    /\ UNCHANGED <<pc, run_state, finished, exit_code, clock, pending, log,
                   faults, first_finish, pass_hist>>

HookNext ==
    \/ LoopNext
    \/ \E name \in LoopTimers : Hook_RemoveTimer(name)
    \/ \E p \in RegPeriods, name \in LoopTimers : Hook_AddTimer(p, name)

HookSpec == HookInit /\ [][HookNext]_vars

----------------------------------------------------------------------------
(* run() called on an instance whatever was done to it before: finish()   *)
(* was called on it, or run() has been called on it before and has left   *)
(* its flag, exit code and timers behind. The history keeps what run()    *)
(* found when it was called.                                               *)
MaxRuns == 2        \* calls of run() on the instance

BootInit ==
    /\ Init
    /\ op_hist = NoOp

(* run() is called: run_state = STARTING; startup() is entered *)
Boot_Run ==
    /\ pc \in {"idle", "returned", "raised"}
    /\ Count("startup") < MaxRuns
    /\ run_state' = STARTING
    /\ pc' = "startup"
    /\ log' = Append(log, Entry("startup", run_state', FALSE))
    /\ op_hist' = [op |-> "run", finished |-> finished,
                   exit_code |-> exit_code, timers |-> timers]
    /\ UNCHANGED <<finished, exit_code, timers, name_counter, clock, pending,
                   faults, first_finish, pass_hist>>

BootNext ==
    \/ Boot_Run
    \/ Finish
    \/ \E p \in Periods, name \in TimerNames : AddTimer(p, name)
    \/ Startup_Raise
    \/ Startup_Reset
    \/ Run_Init
    \/ Init_Return
    \/ Hook_Raise
    \/ While_Enter
    \/ While_Exit
    \/ \E n \in pending : Update_Inactive(n)
    \/ Update_Return
    \/ Loop_Return
    \/ Deinit_Return
    \/ Shutdown_Return
    \/ Except
    \/ Forced_Return

BootSpec == BootInit /\ [][BootNext]_vars

----------------------------------------------------------------------------
(* One timer driven through its own methods: init() has registered it and *)
(* user code calls start(), stop(), pause(), resume() and update() on the *)
(* object add_timer returned, while time passes between the calls. The    *)
(* history keeps the last call: the timer before it, the reading of the   *)
(* clock it took, the accumulator at the firing test and whether the      *)
(* callback was invoked; the time of the last start(), whether since then *)
(* only update() was called, with less than a period between the calls    *)
(* and callbacks that took no time; and the accumulator at the last       *)
(* pause(). It also follows the sequence update(), pause(), resume(),     *)
(* update() on a running timer (seq 1, 2, 3, done), with the time of that *)
(* pause() and the time that had passed since the baseline (lost).        *)
MaxClock == 12      \* the clock stops advancing after MaxClock quanta
MaxStep == 3        \* quanta that pass between two calls

TickQuantum == 100 * NsPerMs
TickPeriods == {400, 1000}
CallbackTimes == {0, 1}
TickTimer == "Tick_Timer"
NoAcc == -1

TimerCall(op, t, acc, fired, start_at, clean, pause_acc) ==
    LET seq == CASE op = "update" /\ t.running /\ ~t.paused -> 1
                 [] op = "pause" /\ op_hist.seq = 1 /\ t.running /\ ~t.paused -> 2
                 [] op = "resume" /\ op_hist.seq = 2 /\ t.running /\ t.paused -> 3
                 [] OTHER -> 0
        done == op = "update" /\ op_hist.seq = 3 /\ t.running /\ ~t.paused
        kept == seq \in {2, 3} \/ done
    IN  [op |-> op, pre |-> t, at |-> clock, acc |-> acc, fired |-> fired,
         start_at |-> start_at, clean |-> clean, pause_acc |-> pause_acc,
         seq |-> seq, done |-> done,
         pause_at |-> IF seq = 2 THEN clock
                      ELSE IF kept THEN op_hist.pause_at ELSE 0,
         lost |-> IF seq = 2 THEN clock - t.before
                  ELSE IF kept THEN op_hist.lost ELSE 0]

TimerInit ==
    /\ pc = "init"
    /\ run_state = INITIALISING
    /\ finished = "False"
    /\ exit_code = EXIT_OK
    /\ \E p \in TickPeriods : timers = [n \in {TickTimer} |-> TimerNew(p)]
    /\ name_counter = 0
    /\ clock = 0
    /\ pending = {}
    /\ log = <<Entry("startup", STARTING, FALSE), Entry("init", INITIALISING, FALSE)>>
    /\ faults = <<>>
    /\ first_finish = NoFinish
    /\ pass_hist = NoPass
    /\ op_hist = [op |-> "none", pre |-> timers[TickTimer], at |-> 0,
                  acc |-> 0, fired |-> FALSE, start_at |-> 0, clean |-> FALSE,
                  pause_acc |-> NoAcc, seq |-> 0, done |-> FALSE,
                  pause_at |-> 0, lost |-> 0]

(* time passes between two calls *)
Timer_Wait(step) ==
    /\ InHook
    /\ clock + step * TickQuantum <= MaxClock * TickQuantum
    /\ clock' = clock + step * TickQuantum
    /\ UNCHANGED <<pc, run_state, finished, exit_code, timers, name_counter,
                   pending, log, faults, first_finish, pass_hist, op_hist>>

(* timer.start() *)
Timer_Start ==
    /\ InHook
    /\ timers' = [timers EXCEPT ![TickTimer] = TimerStart(@, clock)]
    /\ op_hist' = TimerCall("start", timers[TickTimer], 0, FALSE, clock, TRUE, NoAcc)
    /\ UNCHANGED <<pc, run_state, finished, exit_code, name_counter, clock,
                   pending, log, faults, first_finish, pass_hist>>

(* timer.stop() *)
Timer_Stop ==
    /\ InHook
    /\ timers' = [timers EXCEPT ![TickTimer] = TimerStop(@, clock)]
    /\ op_hist' = TimerCall("stop", timers[TickTimer], 0, FALSE,
                            op_hist.start_at, FALSE, NoAcc)
    /\ UNCHANGED <<pc, run_state, finished, exit_code, name_counter, clock,
                   pending, log, faults, first_finish, pass_hist>>

(* timer.pause() *)
Timer_Pause ==
    /\ InHook
    /\ timers' = [timers EXCEPT ![TickTimer] = TimerPause(@)]
    /\ op_hist' = TimerCall("pause", timers[TickTimer], 0, FALSE,
                            op_hist.start_at, FALSE,
                            IF timers[TickTimer].paused
                            THEN op_hist.pause_acc
                            ELSE timers[TickTimer].duration)
    /\ UNCHANGED <<pc, run_state, finished, exit_code, name_counter, clock,
                   pending, log, faults, first_finish, pass_hist>>

(* timer.resume() *)
Timer_Resume ==
    /\ InHook
    /\ timers' = [timers EXCEPT ![TickTimer] = TimerResume(@, clock)]
    /\ op_hist' = TimerCall("resume", timers[TickTimer], 0, FALSE,
                            op_hist.start_at, FALSE, op_hist.pause_acc)
    /\ UNCHANGED <<pc, run_state, finished, exit_code, name_counter, clock,
                   pending, log, faults, first_finish, pass_hist>>

(* timer.update(); the callback, if it is invoked, takes d quanta *)
Timer_Update(d) ==
    /\ InHook
    /\ LET t == timers[TickTimer]
           now == clock
           after == now + d * TickQuantum
       IN  IF ~TimerActive(t)
           THEN /\ d = 0
                /\ op_hist' = TimerCall("update", t, t.duration, FALSE,
                                        op_hist.start_at, op_hist.clean,
                                        op_hist.pause_acc)
                /\ UNCHANGED <<timers, clock>>
           ELSE IF TimerDue(t, now)
           THEN /\ after <= MaxClock * TickQuantum
                /\ timers' = [timers EXCEPT ![TickTimer] =
                                 TimerUpdateFired(@, now, after)]
                /\ clock' = after
                /\ op_hist' = TimerCall("update", t, TimerAccumulated(t, now),
                                        TRUE, op_hist.start_at,
                                        /\ op_hist.clean
                                        /\ d = 0
                                        /\ now - t.before < t.period * NsPerMs,
                                        op_hist.pause_acc)
           ELSE /\ d = 0
                /\ timers' = [timers EXCEPT ![TickTimer] = TimerUpdateIdle(@, now)]
                /\ op_hist' = TimerCall("update", t, TimerAccumulated(t, now),
                                        FALSE, op_hist.start_at,
                                        op_hist.clean, op_hist.pause_acc)
                /\ UNCHANGED clock
    /\ UNCHANGED <<pc, run_state, finished, exit_code, name_counter, pending,
                   log, faults, first_finish, pass_hist>>

(* timer.update() that invokes the callback, and the callback calls stop() *)
(* on the timer it was given as source; it takes d quanta                  *)
Timer_UpdateStopped(d) ==
    /\ InHook
    /\ TimerActive(timers[TickTimer])
    /\ TimerDue(timers[TickTimer], clock)
    /\ clock + d * TickQuantum <= MaxClock * TickQuantum
    /\ \E stopped_at \in {clock, clock + d * TickQuantum} :
         timers' = [timers EXCEPT ![TickTimer] =
                      TimerUpdateFired(TimerStop(@, stopped_at), clock,
                                       clock + d * TickQuantum)]
    /\ clock' = clock + d * TickQuantum
    /\ op_hist' = TimerCall("update", timers[TickTimer],
                            TimerAccumulated(timers[TickTimer], clock), TRUE,
                            op_hist.start_at, FALSE, NoAcc)
    /\ UNCHANGED <<pc, run_state, finished, exit_code, name_counter, pending,
                   log, faults, first_finish, pass_hist>>

TimerNext ==
    \/ \E step \in 1..MaxStep : Timer_Wait(step)
    \/ Timer_Start
    \/ Timer_Stop
    \/ Timer_Pause
    \/ Timer_Resume
    \/ \E d \in CallbackTimes : Timer_Update(d)
    \/ \E d \in CallbackTimes : Timer_UpdateStopped(d)

TimerSpec == TimerInit /\ [][TimerNext]_vars

----------------------------------------------------------------------------
(* Observations the properties are stated in *)
Stopped == pc \in {"returned", "raised"}
NoFaults == faults = <<>>
FirstFaultIn(srcs) == faults # <<>> /\ faults[1].src \in srcs
Deinits == {i \in DOMAIN log : log[i].call = "deinit"}
ForcedDeinits == {i \in Deinits : log[i].forced}
IsLoopCall(e) == e.call \in {"update_timers", "loop"}
IsOtherCall(e) == ~IsLoopCall(e)
OrdinalOf(src) ==
    CASE src = "startup" -> STARTING
      [] src = "init" -> INITIALISING
      [] src \in {"timer", "loop"} -> LOOPING
      [] src = "deinit" -> DEINITIALISING
      [] src = "shutdown" -> SHUTTING_DOWN

----------------------------------------------------------------------------
(* C1: across every step of run(), the steps inside startup() included,    *)
(* run_state never moves to a smaller ordinal.                             *)
C1_StateNeverMovesBack == [][run_state' >= run_state]_vars

(* C2: when run() has stopped after a fault raised from startup, init, a   *)
(* timer callback, loop or deinit, the exit code is the ordinal of the     *)
(* state that was active when the fault was raised (STARTING,              *)
(* INITIALISING, LOOPING, LOOPING, DEINITIALISING), and it is not 0.       *)
C2_ExitCodeIsFaultState ==
    (Stopped /\ FirstFaultIn({"startup", "init", "timer", "loop", "deinit"})) =>
        /\ exit_code = faults[1].state
        /\ exit_code = OrdinalOf(faults[1].src)
        /\ exit_code # EXIT_OK

C2_Witness ==
    /\ pc = "returned"
    /\ FirstFaultIn({"timer"})
    /\ exit_code = LOOPING

(* C3: after a fault raised by startup, init, a timer callback or loop,    *)
(* deinit is never invoked by the normal DEINITIALISING step, and when     *)
(* run() has stopped it has been invoked exactly once, by the forced       *)
(* cleanup.                                                                *)
C3_DeinitOnceAfterFault ==
    FirstFaultIn({"startup", "init", "timer", "loop"}) =>
        /\ faults[1].state \in {STARTING, INITIALISING, LOOPING}
        /\ Deinits = ForcedDeinits
        /\ Cardinality(Deinits) <= 1
        /\ Stopped => Cardinality(Deinits) = 1

C3_Witness ==
    /\ pc = "returned"
    /\ FirstFaultIn({"loop"})
    /\ Cardinality(ForcedDeinits) = 1

(* C4 as claimed: a fault of deinit in DEINITIALISING or of shutdown() in  *)
(* SHUTTING_DOWN is not caught: run() does not enter its except clause,    *)
(* does not invoke deinit again and does not return normally.              *)
C4_TeardownFaultPropagates ==
    FirstFaultIn({"deinit", "shutdown"}) =>
        /\ pc \notin {"except", "forced_deinit", "returned"}
        /\ ForcedDeinits = {}

(* C4 as amended: such a fault is caught by run().  The exit code becomes  *)
(* the ordinal of the state.  After a deinit fault deinit is invoked once  *)
(* more, as the forced cleanup, and run() returns normally unless that     *)
(* second deinit raises; after a shutdown() fault deinit is not invoked    *)
(* again and run() returns normally.                                       *)
C4_TeardownFaultCaught ==
    /\ FirstFaultIn({"deinit"}) =>
         /\ faults[1].state = DEINITIALISING
         /\ pc \in {"except", "forced_deinit", "returned", "raised"}
         /\ pc # "except" =>
              /\ exit_code = DEINITIALISING
              /\ Cardinality(Deinits) = 2
              /\ Cardinality(ForcedDeinits) = 1
         /\ pc = "raised" <=> Len(faults) = 2
    /\ FirstFaultIn({"shutdown"}) =>
         /\ faults[1].state = SHUTTING_DOWN
         /\ pc \in {"except", "returned"}
         /\ pc = "returned" => exit_code = SHUTTING_DOWN
         /\ Cardinality(Deinits) = 1
         /\ ForcedDeinits = {}
         /\ Len(faults) = 1

C4_Witness ==
    /\ pc = "returned"
    /\ FirstFaultIn({"deinit"})
    /\ Cardinality(Deinits) = 2

(* C5: a fault raised by the forced deinit is not caught: run() raises,    *)
(* deinit is not invoked a further time and the exit code keeps the        *)
(* ordinal recorded for the first fault.                                   *)
C5_SecondFaultPropagates ==
    (\E i \in DOMAIN faults : faults[i].src = "forced_deinit") =>
        /\ pc = "raised"
        /\ Len(faults) = 2
        /\ faults[2].src = "forced_deinit"
        /\ Cardinality(ForcedDeinits) = 1
        /\ exit_code = faults[1].state

C5_Witness ==
    /\ pc = "raised"
    /\ Len(faults) = 2
    /\ faults[1].src = "init"
    /\ exit_code = INITIALISING

(* C6: when run() has returned and nothing raised, startup, init, deinit   *)
(* and shutdown have each been invoked exactly once, in that order, in     *)
(* the states STARTING, INITIALISING, DEINITIALISING and SHUTTING_DOWN,    *)
(* every timer-update pass and loop call lies between init and deinit in   *)
(* state LOOPING, and the exit code is 0.                                  *)
C6_CleanRunVisitsEachPhaseOnce ==
    (pc = "returned" /\ NoFaults) =>
        /\ SelectSeq(log, IsOtherCall) =
             << Entry("startup", STARTING, FALSE),
                Entry("init", INITIALISING, FALSE),
                Entry("deinit", DEINITIALISING, FALSE),
                Entry("shutdown", SHUTTING_DOWN, FALSE) >>
        /\ \A i \in DOMAIN log :
             IsLoopCall(log[i]) => log[i].state = LOOPING /\ 2 < i /\ i < Len(log) - 1
        /\ exit_code = EXIT_OK

C6_Witness ==
    /\ pc = "returned"
    /\ NoFaults
    /\ Count("loop") >= 2

(* C7: if finish() is first called inside the loop hook, on iteration N,   *)
(* and nothing raises, then the timer-update pass and the loop hook are    *)
(* each executed exactly N times, and from the loop hook run() goes to     *)
(* DEINITIALISING and on, never into another iteration.                    *)
C7_FinishInLoopIterationN ==
    (first_finish.src = "loop" /\ NoFaults) =>
        /\ first_finish.iter >= 1
        /\ Count("loop") = first_finish.iter
        /\ Count("update_timers") = first_finish.iter
        /\ \/ pc \in {"loop", "while"} /\ run_state = LOOPING
           \/ pc \in {"deinit", "shutdown", "returned"} /\ run_state >= DEINITIALISING

C7_Witness ==
    /\ first_finish = [src |-> "loop", iter |-> 2]
    /\ NoFaults
    /\ pc = "deinit"
    /\ run_state = DEINITIALISING
    /\ Count("update_timers") = 2

(* C8 as claimed: after a finish() made in init() the loop still runs its  *)
(* timer updates and loop hook: it is not left before an iteration was     *)
(* executed in which finish() could be called while LOOPING.               *)
C8_FinishInInitIgnored ==
    (first_finish.src = "init" /\ NoFaults /\ run_state >= DEINITIALISING) =>
        /\ Count("update_timers") >= 1
        /\ Count("loop") >= 1

(* C9: run_state leaves LOOPING only for DEINITIALISING and only at the    *)
(* loop condition with finished true; at the loop condition with finished  *)
(* not true the state stays LOOPING and another iteration is started.      *)
C9_LoopExitsOnlyWhenFinished ==
    [][ /\ (run_state = LOOPING /\ run_state' # LOOPING) =>
             (pc = "while" /\ finished = "True" /\ run_state' = DEINITIALISING)
        /\ (pc = "while" /\ finished # "True") =>
             /\ run_state' = LOOPING
             /\ pc' = "update_timers"
             /\ log' = Append(log, Entry("update_timers", LOOPING, FALSE)) ]_vars

C9_Witness ==
    /\ run_state = DEINITIALISING
    /\ NoFaults
    /\ Count("loop") >= 1
    /\ finished = "True"

(* C10: once finish() has been called and the state is LOOPING, run()      *)
(* reaches SHUTTING_DOWN and returns unless something raises; and from     *)
(* init() on, finished, once true, stays true.                             *)
C10_FinishLeadsToReturn ==
    /\ (finished = "True" /\ run_state = LOOPING)
         ~> ((pc = "returned" /\ run_state = SHUTTING_DOWN) \/ ~NoFaults)
    /\ [][(finished = "True" /\ run_state >= INITIALISING) => finished' = "True"]_vars

C10_Witness ==
    /\ pc = "returned"
    /\ run_state = SHUTTING_DOWN
    /\ NoFaults
    /\ first_finish.src = "timer"

C12_FinishDoesNotPreempt ==
    [][ /\ (pc = "update_timers" /\ Truthy(finished) /\ pc' # "update_timers") =>
             \/ pc' = "except" /\ faults' # faults
             \/ /\ pc' = "loop"
                /\ log' = Append(log, Entry("loop", LOOPING, FALSE))
                /\ \A n \in pass_hist.names : pass_hist.visits[n] = 1
        /\ (pc = "update_timers" /\ Truthy(finished) /\ pc' = "update_timers") =>
             \E n \in pending :
                 /\ pending' = pending \ {n}
                 /\ pass_hist'.visits[n] = 1
        /\ first_finish.src = "timer" =>
             /\ Count("update_timers")' = first_finish.iter
             /\ Truthy(finished')
             /\ pc = "while" => pc' = "deinit" ]_vars

C12_Witness ==
    /\ pc = "update_timers"
    /\ pending = {}
    /\ NoFaults
    /\ first_finish = [src |-> "timer", iter |-> Count("update_timers")]
    /\ pass_hist.rest # {}
    /\ \A n \in pass_hist.rest :
         pass_hist.visits[n] = 1 /\ n \in pass_hist.fired

(* C13: add_timer with a name that is a key of the collection returns None *)
(* and changes nothing: the collection, the timer mapped under the name    *)
(* with its period, flags, accumulator and trigger count, and the counter  *)
(* of generated names are as they were.                                    *)
C13_DuplicateNameRefused ==
    [][ (/\ op_hist'.calls # op_hist.calls
         /\ op_hist'.op = "add_timer"
         /\ op_hist'.name \in DOMAIN timers) =>
             /\ op_hist'.result = "None"
             /\ timers' = timers
             /\ name_counter' = name_counter
             /\ pc' = pc /\ faults' = faults ]_vars

C13_Witness ==
    /\ op_hist.op = "add_timer"
    /\ op_hist.result = "None"
    /\ op_hist.name \in DOMAIN timers
    /\ timers[op_hist.name].running
    /\ timers[op_hist.name].paused
    /\ timers[op_hist.name].period = 2

(* C14 as claimed: no registration stores its timer under a key that is    *)
(* taken, so the size of the collection is the number of registrations     *)
(* that succeeded minus the number of removals that removed.               *)
C14_NoRegistrationOverwrites ==
    /\ ~op_hist.overwrote
    /\ Cardinality(DOMAIN timers) = op_hist.adds - op_hist.removes

(* C15 as claimed: on a timer that was started and since then only         *)
(* updated, with less than a period between the calls and callbacks that   *)
(* take no time, the number of callback invocations after an update() is   *)
(* the time elapsed since start() divided by the period, rounded down.     *)
C15_FiresFloorOfElapsedOverPeriod ==
    (op_hist.op = "update" /\ op_hist.clean) =>
        timers[TickTimer].trigger_count =
            (op_hist.at - op_hist.start_at)
                \div (timers[TickTimer].period * NsPerMs)

(* C16 as claimed: after an update() that invoked the callback the         *)
(* accumulator is the overshoot: what had accumulated at the firing test   *)
(* minus the period.                                                       *)
C16_AccumulatorKeepsOvershoot ==
    (op_hist.op = "update" /\ op_hist.fired) =>
        timers[TickTimer].duration =
            op_hist.acc - timers[TickTimer].period * NsPerMs

(* C17: update() on a timer that is not running, or is paused, changes     *)
(* nothing and invokes no callback; and when update() invokes the callback *)
(* the timer was running and not paused and its accumulator plus the time  *)
(* since the baseline was at least the period (milliseconds) times         *)
(* 1,000,000.                                                              *)
C17_UpdateOnlyWhenRunningNotPaused ==
    op_hist.op = "update" =>
        /\ ~(op_hist.pre.running /\ ~op_hist.pre.paused) =>
              /\ timers[TickTimer] = op_hist.pre
              /\ ~op_hist.fired
        /\ (op_hist.fired
              \/ timers[TickTimer].trigger_count # op_hist.pre.trigger_count) =>
              /\ op_hist.pre.running
              /\ ~op_hist.pre.paused
              /\ op_hist.acc =
                   op_hist.pre.duration + (op_hist.at - op_hist.pre.before)
              /\ op_hist.acc >= op_hist.pre.period * 1000000

C17_Witness ==
    /\ op_hist.op = "update"
    /\ op_hist.pre.running
    /\ op_hist.pre.paused
    /\ op_hist.pre.trigger_count >= 1
    /\ op_hist.at - op_hist.pre.before >= op_hist.pre.period * NsPerMs
    /\ timers[TickTimer] = op_hist.pre

(* C18: resume() of a running timer that was paused leaves the accumulator *)
(* as it was when pause() was called, however much time passed and however *)
(* often update() was called in between; and the update() that follows     *)
(* resume() adds only the time that passed since resume().                 *)
C18_PausedIntervalNotCounted ==
    /\ [](( /\ op_hist.op = "resume"
            /\ op_hist.pre.running
            /\ op_hist.pre.paused
            /\ op_hist.pause_acc # NoAcc ) =>
               timers[TickTimer].duration = op_hist.pause_acc)
    /\ [][ ( /\ op_hist.op = "resume"
             /\ op_hist'.op = "update"
             /\ timers[TickTimer].running ) =>
               /\ op_hist'.acc =
                    timers[TickTimer].duration + (clock - op_hist.at)
               /\ \/ op_hist'.fired
                  \/ timers'[TickTimer].duration = op_hist'.acc ]_vars

C18_Witness ==
    /\ op_hist.op = "update"
    /\ ~op_hist.fired
    /\ op_hist.pre.running
    /\ op_hist.pause_acc > 0
    /\ op_hist.pre.duration = op_hist.pause_acc
    /\ op_hist.acc > op_hist.pause_acc
    /\ op_hist.acc < op_hist.at - op_hist.start_at - 2 * TickQuantum

(* C19: stop() leaves the timer not running, not paused, with trigger      *)
(* count 0 and accumulator 0, whatever it was before; and start() leaves   *)
(* it running with trigger count 0, accumulator 0 and the baseline at the  *)
(* time of the call: nothing of the state before the call remains but the  *)
(* period.                                                                 *)
C19_StopDisarmsStartBeginsAfresh ==
    /\ op_hist.op = "stop" =>
          /\ ~timers[TickTimer].running
          /\ ~timers[TickTimer].paused
          /\ timers[TickTimer].trigger_count = 0
          /\ timers[TickTimer].duration = 0
          /\ timers[TickTimer].period = op_hist.pre.period
    /\ op_hist.op = "start" =>
          timers[TickTimer] =
              [period |-> op_hist.pre.period, trigger_count |-> 0,
               running |-> TRUE, paused |-> FALSE, duration |-> 0,
               before |-> op_hist.at]

C19_Witness ==
    /\ op_hist.op = "stop"
    /\ op_hist.pre.running
    /\ op_hist.pre.paused
    /\ op_hist.pre.trigger_count >= 1
    /\ op_hist.pre.duration > 0

(* C20: pause() changes the paused flag and nothing else, resume() the     *)
(* paused flag and the baseline and nothing else: trigger count,           *)
(* accumulator, running flag and period are as before the call.            *)
C20_PauseResumeTouchOnlyPausedFlag ==
    /\ op_hist.op = "pause" =>
          timers[TickTimer] = [op_hist.pre EXCEPT !.paused = TRUE]
    /\ op_hist.op = "resume" =>
          timers[TickTimer] =
              [op_hist.pre EXCEPT !.paused = FALSE, !.before = op_hist.at]

C20_Witness ==
    /\ op_hist.op = "resume"
    /\ ~op_hist.pre.running
    /\ op_hist.pre.paused
    /\ ~timers[TickTimer].running
    /\ op_hist.pre.before < op_hist.at

(* C21: once run() has caught a fault, the only call it makes is the one   *)
(* forced deinit(): startup(), init(), update_timers(), loop() and         *)
(* shutdown() are not called any more, no timer is updated, and run_state  *)
(* stays the state the fault was raised in.                                *)
C21_OnlyForcedDeinitAfterFault ==
    [][ ~NoFaults =>
          /\ run_state' = run_state
          /\ run_state = faults[1].state
          /\ pending' = pending
          /\ pass_hist' = pass_hist
          /\ \/ log' = log
             \/ /\ log' = Append(log, Entry("deinit", run_state, TRUE))
                /\ ForcedDeinits = {}
                /\ Len(faults) = 1 ]_vars

C21_Witness ==
    /\ pc = "returned"
    /\ Len(faults) = 1
    /\ faults[1].src = "loop"
    /\ run_state = LOOPING
    /\ Cardinality(ForcedDeinits) = 1
    /\ log[Len(log)] = Entry("deinit", LOOPING, TRUE)
    /\ Count("shutdown") = 0

(* C22: when a callback raises during an update pass, the step changes no  *)
(* timer but the one being updated, and from then on no timer changes and  *)
(* no timer is updated: the timers the pass had visited keep what update() *)
(* gave them, the timers it had not reached stay as they were, loop() is   *)
(* not called for the iteration, and run() returns with exit code LOOPING. *)
C22_PartialPassKeptAfterCallbackFault ==
    [][ /\ (NoFaults /\ FirstFaultIn({"timer"})') =>
             /\ \A m \in DOMAIN timers :
                    pass_hist'.visits[m] = pass_hist.visits[m] =>
                        timers'[m] = timers[m]
             /\ pending' = pending
             /\ pc' = "except"
        /\ FirstFaultIn({"timer"}) =>
             /\ timers' = timers
             /\ pass_hist' = pass_hist
             /\ Count("loop")' = Count("update_timers")' - 1
             /\ pc' = "returned" => exit_code' = LOOPING ]_vars

C22_Witness ==
    /\ pc = "returned"
    /\ FirstFaultIn({"timer"})
    /\ exit_code = LOOPING
    /\ \E a, b, c \in DOMAIN timers :
         /\ pass_hist.visits[a] = 1
         /\ a \notin pass_hist.fired
         /\ timers[a].duration > 0
         /\ timers[a].before = timers[a].duration
         /\ b \in pass_hist.fired
         /\ timers[b].trigger_count = 0
         /\ pass_hist.visits[c] = 0
         /\ timers[c].running
         /\ timers[c].before = 0

(* C23: start() gives the same result on a timer in any state: trigger     *)
(* count 0, accumulator 0, baseline at the time of the call, running and   *)
(* not paused; a timer that was running starts its period again.           *)
C23_StartRestartsInAnyState ==
    op_hist.op = "start" =>
        /\ timers[TickTimer].duration = 0
        /\ timers[TickTimer].trigger_count = 0
        /\ timers[TickTimer].before = op_hist.at
        /\ timers[TickTimer].running
        /\ ~timers[TickTimer].paused

C23_Witness ==
    /\ op_hist.op = "start"
    /\ op_hist.pre.running
    /\ ~op_hist.pre.paused
    /\ op_hist.pre.trigger_count >= 1
    /\ op_hist.pre.duration > 0
    /\ op_hist.pre.before < op_hist.at
    /\ timers[TickTimer].duration = 0

(* C24: in every reachable state, an operation on a list of names leaves,  *)
(* for every registered name, what the operation on that one name leaves   *)
(* when applied at the name's last place in the list, and leaves the names *)
(* not in the list alone, whether or not the list holds names that are not *)
(* registered; on a list of one name it is the operation on one name; and  *)
(* an operation on all timers is the operation on a list that holds every  *)
(* registered name once, in any order.                                     *)
C24_ManyAndAllAreRepeatedSingle ==
    \A op \in TimerOps \cup {"remove"} :
        /\ \A names \in NameLists : \A nows \in ListReadings(names, clock) :
              LET r == ManyOp(timers, op, names, nows)
                  Occ(n) == {i \in DOMAIN names : names[i] = n}
                  Last(n) == CHOOSE i \in Occ(n) : \A k \in Occ(n) : k <= i
              IN  /\ DOMAIN r = IF op = "remove"
                                THEN {n \in DOMAIN timers : Occ(n) = {}}
                                ELSE DOMAIN timers
                  /\ \A n \in DOMAIN r :
                        r[n] = IF Occ(n) = {} THEN timers[n]
                               ELSE TimerOp(op, timers[n], nows[Last(n)])
                  /\ Len(names) = 1 =>
                        r = SingleOp(timers, op, names[1], nows[1])
        /\ \A nows \in AllReadings(timers, clock) :
              \A names \in NameLists :
                  ( /\ Len(names) = Cardinality(DOMAIN timers)
                    /\ {names[i] : i \in DOMAIN names} = DOMAIN timers ) =>
                      AllOp(timers, op, nows) =
                          ManyOp(timers, op, names,
                                 [i \in DOMAIN names |-> nows[names[i]]])

C24_Witness ==
    /\ op_hist.kind = "many"
    /\ op_hist.op = "pause"
    /\ op_hist.unknown
    /\ Cardinality(DOMAIN timers) = 1
    /\ \A n \in DOMAIN timers : timers[n].running /\ timers[n].paused

(* C29: an operation on one name that is not registered leaves the         *)
(* collection and every registered timer as they are and raises nothing;   *)
(* has_timer is false and get_timer returns None for such a name.          *)
C29_UnknownNameIsNoOp ==
    /\ [](\A name \in PassTimers \ DOMAIN timers :
            /\ ~HasTimer(timers, name)
            /\ GetTimer(timers, name) = NoTimer
            /\ \A op \in TimerOps \cup {"remove"}, now \in OpsReadings(clock) :
                  SingleOp(timers, op, name, now) = timers)
    /\ [][ (op_hist' # op_hist /\ op_hist'.kind = "one" /\ op_hist'.unknown) =>
              /\ timers' = timers
              /\ faults' = faults
              /\ pc' = pc ]_vars

C29_Witness ==
    /\ op_hist.kind = "one"
    /\ op_hist.op = "stop"
    /\ op_hist.unknown
    /\ Cardinality(DOMAIN timers) = 1
    /\ \A n \in DOMAIN timers : timers[n].running /\ timers[n].paused
    /\ NoFaults

C26_StoppedTimerIsZero ==
    ~timers[TickTimer].running =>
        /\ timers[TickTimer].trigger_count = 0
        /\ timers[TickTimer].duration = 0

(* C27: one update() invokes the callback at most once and raises the      *)
(* trigger count by at most 1, by exactly 1 when the callback returned     *)
(* without touching the timer, however many whole periods had accumulated. *)
C27_OneFirePerUpdate ==
    op_hist.op = "update" =>
        /\ timers[TickTimer].trigger_count <= op_hist.pre.trigger_count + 1
        /\ (op_hist.fired /\ timers[TickTimer].running) =>
              timers[TickTimer].trigger_count = op_hist.pre.trigger_count + 1
        /\ ~op_hist.fired =>
              timers[TickTimer].trigger_count = op_hist.pre.trigger_count

C27_Witness ==
    /\ op_hist.op = "update"
    /\ op_hist.fired
    /\ op_hist.acc \div (op_hist.pre.period * NsPerMs) >= 2
    /\ op_hist.pre.trigger_count = 1
    /\ timers[TickTimer].trigger_count = 2
    /\ timers[TickTimer].running

(* C28: after update(), pause(), resume(), update() on a running timer,    *)
(* with any time passing between the calls, the second update(), if it     *)
(* does not fire, leaves the accumulator at what the first update() left   *)
(* plus the time that passed since resume(): the time between the first    *)
(* update() and pause() is in it no more than the paused time.             *)
C28_TimeBeforePauseIsLost ==
    [][ ( /\ op_hist.seq = 3
          /\ op_hist'.op = "update"
          /\ op_hist'.done
          /\ ~op_hist'.fired ) =>
            timers'[TickTimer].duration =
                op_hist.pause_acc + (clock - op_hist.at) ]_vars

C28_Witness ==
    /\ op_hist.op = "update"
    /\ op_hist.done
    /\ ~op_hist.fired
    /\ op_hist.lost > 0
    /\ op_hist.pre.before > op_hist.pause_at
    /\ op_hist.at > op_hist.pre.before
    /\ op_hist.pause_acc > 0
    /\ timers[TickTimer].duration =
           op_hist.pause_acc + (op_hist.at - op_hist.pre.before)

(* C30: when init() is entered, finished is False, exit_code is 0 and the  *)
(* timer collection is empty, whatever run() found when it was called: a   *)
(* flag set by finish(), an exit code and timers left by an earlier run(). *)
(* The flag is False from the end of startup() on, so a finish() made      *)
(* before run() is not what the loop condition reads.                      *)
C30_StartupResetsFlagCodeAndTimers ==
    /\ [](pc \in {"started", "init"} => exit_code = EXIT_OK)
    /\ [](pc = "started" => (finished = "False" /\ timers = EmptyDict))
    /\ [][ (pc # "init" /\ pc' = "init") =>
              /\ finished' = "False"
              /\ exit_code' = 0
              /\ timers' = EmptyDict
              /\ DOMAIN timers' = {} ]_vars

C30_Witness ==
    /\ pc = "init"
    /\ op_hist.op = "run"
    /\ op_hist.finished = "True"
    /\ op_hist.exit_code = INITIALISING
    /\ op_hist.timers # NoneTimers
    /\ DOMAIN op_hist.timers # {}
    /\ finished = "False"
    /\ exit_code = 0
    /\ timers = EmptyDict

====
